---- MODULE Spec2Model ----
(***************************************************************************)
(* A model of the ColliderML downloader                                    *)
(* (colliderml/core/io/downloader.py): the batch loop of download_dataset, *)
(* the single-file fetch with mirror fallback and HDF5 validation, the     *)
(* existence probe and the extent discovery of find_last_available_event;  *)
(* the download command of scripts/cli.py; and the XRootD client           *)
(* (colliderml/core/io/xrootd.py).                                         *)
(***************************************************************************)
EXTENDS Integers, Sequences, FiniteSets, TLC

VARIABLES
    env,            \* what the network and the file system may do in this run
    pileup,         \* download_dataset argument
    processes,      \* download_dataset argument (a list)
    object_types,   \* download_dataset argument (a list)
    resume,         \* download_dataset argument
    max_workers,    \* download_dataset argument
    start_event,    \* download_dataset / find_last_available_event argument
    end_event,      \* download_dataset argument
    pc,             \* position of the download_dataset call
    pi,             \* index of the outer loop (processes)
    oi,             \* index of the inner loop (object_types)
    results,        \* the dict download_dataset assembles
    raised,         \* the exception that left download_dataset, if any
    remote_path,    \* remote path of the task in progress
    mi,             \* position of the mirror loop in base_urls
    last_error,     \* last_error of _download_single_file
    disk,           \* local files: file name -> bytes
    attempts,       \* history: the mirror attempts of the task in progress
    completed,      \* history: the (process, object) index pairs whose task finished
    trace,          \* history: the steps of the task in progress
    started,        \* history: the (process, object) index pairs whose task began
    targets,        \* history: remote path and local file of every task begun
    max_events,     \* find_last_available_event argument
    server,         \* which chunk files the data server holds
    d_pc,           \* position of the find_last_available_event call
    current_chunk,  \* cursor of the forward scan
    last_found,     \* last chunk start the forward scan found
    tail_event,     \* end_event of the tail scan (line 370)
    d_result,       \* what find_last_available_event returned
    d_raised,       \* the exception that left find_last_available_event, if any
    probe,          \* the last _check_file_exists call: path, answers, outcome
    fwd_probes,     \* history: the probes of the forward scan
    args,           \* the command line of `colliderml download`
    DATASET_SIZES,  \* colliderml.core.data.config.DATASET_SIZES: process -> events
    constructed,    \* what DataDownloader(...) did: "none", "ok" or the exception
    cli_pc,         \* position of the CLI download command
    cli_pos,        \* indices of the pileup, channel, object and chunk loops
    cli_results,    \* the dict the CLI download command assembles
    cli_exit,       \* exit status of the command
    cli_asked,      \* history: the files the command asked download_dataset for
    cli_warned,     \* history: the warnings the command printed in place of a result
    xrd,            \* the XRootD server: failing directories, the remote file
    x_call,         \* the XRootDClient call: operation and arguments
    x_pc,           \* position of the XRootDClient call
    x_offset,       \* offset of download_file
    x_local,        \* the local file download_file writes
    x_out           \* what the XRootDClient call returned or raised

DiscVars == <<max_events, server, d_pc, current_chunk, last_found, tail_event,
              d_result, d_raised, probe, fwd_probes>>

CliVars == <<args, DATASET_SIZES, constructed, cli_pc, cli_pos, cli_results, cli_exit,
             cli_asked, cli_warned>>

XVars == <<xrd, x_call, x_pc, x_offset, x_local, x_out>>

vars == <<env, pileup, processes, object_types, resume, max_workers, start_event,
          end_event, pc, pi, oi, results, raised, remote_path, mi, last_error, disk,
          attempts, completed, trace, started, targets, DiscVars, CliVars, XVars>>

----------------------------------------------------------------------------
(* Bounds of the model *)

NumMirrors == 2
MaxChunks == 2
MaxProcesses == 2
FileLen == 3
XFileLen == 3

----------------------------------------------------------------------------
(* Generic helpers *)

Put(f, k, v) == [x \in (DOMAIN f) \cup {k} |-> IF x = k THEN v ELSE f[x]]

Remove(f, k) == [x \in (DOMAIN f) \ {k} |-> f[x]]

EmptyMap == [x \in {} |-> <<>>]

Lists(S, n) == UNION {[1..k -> S] : k \in 1..n}

----------------------------------------------------------------------------
(* colliderml.core.data.config: the path naming collaborator *)

EVENTS_PER_FILE == 1000

VALID_PROCESSES == {"ttbar", "wjets", "zjets", "susy", "higgs", "qcd", "exotics"}

OBJECT_CONFIGS ==
    [o \in {"tracks", "particle_flow", "particles", "tracker_hits"} |->
        CASE o = "tracks" -> "reco"
          [] o = "particle_flow" -> "reco"
          [] o = "particles" -> "truth"
          [] o = "tracker_hits" -> "measurements"]

\* get_object_path raises ValueError for an invalid process or object type
ValidRequest(process, object_name) ==
    process \in VALID_PROCESSES /\ object_name \in DOMAIN OBJECT_CONFIGS

\* {pileup}/{process}/v1/{dataType}/{object}/
\*     {pileup}.{process}.v1.{dataType}.{object}.events{start}-{end}.h5
get_object_path(pu, process, object_name, s, e) ==
    [dir  |-> <<pu, process, "v1", OBJECT_CONFIGS[object_name], object_name>>,
     name |-> <<pu, process, "v1", OBJECT_CONFIGS[object_name], object_name, s, e>>]

\* os.path.basename(remote_path)
basename(rp) == rp.name

----------------------------------------------------------------------------
(* The mirror list and what a mirror serves *)

\* self.base_urls: the i-th mirror of the list
base_urls == [i \in 1..NumMirrors |-> 100 + i]

\* The HDF5 containers a mirror may hold, by the code stored in the first
\* byte of the file.
Containers ==
    [c \in 1..5 |->
        CASE c = 1 -> [has_events |-> TRUE,  n_events |-> 2, first_is_group |-> TRUE,
                       datasets |-> {"pt", "eta"}, attrs |-> {<<"version", "v1">>}]
          [] c = 2 -> [has_events |-> FALSE, n_events |-> 0, first_is_group |-> FALSE,
                       datasets |-> {}, attrs |-> {<<"test_attr", "test_value">>}]
          [] c = 3 -> [has_events |-> TRUE,  n_events |-> 0, first_is_group |-> FALSE,
                       datasets |-> {}, attrs |-> {}]
          [] c = 4 -> [has_events |-> TRUE,  n_events |-> 1, first_is_group |-> FALSE,
                       datasets |-> {}, attrs |-> {}]
          [] c = 5 -> [has_events |-> TRUE,  n_events |-> 1, first_is_group |-> TRUE,
                       datasets |-> {}, attrs |-> {}]]

\* Code 0 is a body that is no HDF5 container at all.
ContainerCodes == 0..5

\* The bytes of the file mirror m serves for container code c: the code, the
\* end-of-file address the superblock stores, then payload bytes of mirror m.
FileBytes(c, m) == [i \in 1..FileLen |-> IF i = 1 THEN c ELSE IF i = 2 THEN FileLen ELSE m]

Prefix(s, k) == SubSeq(s, 1, k)

----------------------------------------------------------------------------
(* DownloadResult *)

NoChecksum == -1

NoSize == -1

NoMetadata == [none |-> TRUE]

\* error: Optional[str] = None
NoError == [msg |-> "None", cause |-> <<"None", 0>>]

DownloadResult(success, path, error, checksum, size, metadata) ==
    [success |-> success, path |-> path, error |-> error,
     checksum |-> checksum, size |-> size, metadata |-> metadata]

----------------------------------------------------------------------------
(* _compute_checksum and _validate_hdf5 *)

RECURSIVE Digest(_)
\* a stand-in for SHA-256: a deterministic fold over all the bytes, in order
Digest(bytes) ==
    IF bytes = <<>> THEN 7
    ELSE (Digest(Prefix(bytes, Len(bytes) - 1)) * 31 + bytes[Len(bytes)]) % 251

_compute_checksum(bytes) == Digest(bytes)

\* h5py.File(file_path, 'r') opens only a complete HDF5 file: a known
\* container whose stored end-of-file address is the size of the file.
Readable(bytes) ==
    /\ Len(bytes) >= 2
    /\ bytes[1] \in DOMAIN Containers
    /\ bytes[2] = Len(bytes)

Invalid(msg, reason) == [ok |-> FALSE, metadata |-> NoMetadata,
                         error |-> [msg |-> msg, cause |-> <<reason, 0>>]]

_validate_hdf5(bytes) ==
    IF ~Readable(bytes)
    THEN Invalid("Invalid HDF5 file", "OSError")
    ELSE LET f == Containers[bytes[1]] IN
         IF ~f.has_events
         THEN Invalid("Error validating HDF5 file", "Missing required 'events' group")
         ELSE IF f.n_events = 0
         THEN Invalid("Error validating HDF5 file", "No events found in file")
         ELSE IF ~f.first_is_group
         THEN Invalid("Error validating HDF5 file", "Events must be HDF5 groups")
         ELSE IF f.datasets = {}
         THEN Invalid("Error validating HDF5 file", "No datasets found in events")
         ELSE [ok |-> TRUE,
               metadata |-> [n_events |-> f.n_events, datasets |-> f.datasets,
                             attrs |-> f.attrs],
               error |-> NoError]

----------------------------------------------------------------------------
(* _download_single_file, one mirror iteration at a time *)

\* local_dir / os.path.basename(remote_path); there is one local_dir
LocalPathEventsOnly(rp) == <<rp.name[6], rp.name[7]>>

LocalPath(rp) == basename(rp)

local_path == LocalPath(remote_path)

Exists(lp) == lp \in DOMAIN disk

NextMirrorRetriesSame(i) == i

\* `continue`: the loop goes on with the next base URL
NextMirror(i) == i + 1

RecordFirstError(kept, err) == IF kept = NoError THEN err ELSE kept

\* `last_error = e`: the error of this mirror replaces the one kept so far
RecordError(kept, err) == err

\* the request of line 147: a plain GET of the whole resource
Request(m) == [mirror |-> m, range_from |-> 0, mode |-> "wb"]

Attempt(m, outcome, err, body) ==
    [request |-> Request(m), outcome |-> outcome, error |-> err, body |-> body,
     advertised |-> FileLen,
     before |-> IF Exists(local_path) THEN <<disk[local_path]>> ELSE <<>>]

\* lines 162-187: what a finished byte stream leads to
StreamResult(lp, bytes) ==
    LET final_size == Len(bytes)
        v == _validate_hdf5(bytes)
    IN  IF v.ok
        THEN DownloadResult(TRUE, lp, NoError, _compute_checksum(bytes),
                            final_size, v.metadata)
        ELSE DownloadResult(FALSE, lp, v.error, NoChecksum, NoSize, NoMetadata)

OpenForAppend(d, lp) == IF lp \in DOMAIN d THEN d ELSE Put(d, lp, <<>>)

\* line 156: open(local_path, 'wb') creates the file or truncates it
OpenForWrite(d, lp) == Put(d, lp, <<>>)

\* lines 157-160: the chunks received are written to the open file
WriteChunks(d, lp, bytes) == Put(d, lp, d[lp] \o bytes)

DiskAfterStreamKeepsFile(d, lp, bytes) == Put(d, lp, bytes)

\* lines 181-182: the file is unlinked when validation failed
DiskAfterStream(d, lp, bytes) ==
    IF _validate_hdf5(bytes).ok THEN Put(d, lp, bytes) ELSE Remove(Put(d, lp, bytes), lp)

StreamTraceChecksumFirst(bytes) ==
    IF _validate_hdf5(bytes).ok
    THEN <<"write", "size", "checksum", "validate">>
    ELSE <<"write", "size", "checksum", "validate", "unlink">>

\* lines 156-182 in their order: the chunks are written and the file closed,
\* its size is read, it is validated, and then hashed or unlinked
StreamTrace(bytes) ==
    IF _validate_hdf5(bytes).ok
    THEN <<"write", "size", "validate", "checksum">>
    ELSE <<"write", "size", "validate", "unlink">>

ExhaustedResultNoMessage(lp, err) ==
    DownloadResult(FALSE, lp, NoError, NoChecksum, NoSize, NoMetadata)

\* lines 193-198
ExhaustedResult(lp, err) ==
    DownloadResult(FALSE, lp,
                   [msg |-> "Failed to download from any URL", cause |-> err.cause],
                   NoChecksum, NoSize, NoMetadata)

\* the inner and outer loops of download_dataset step to the next pair
AdvanceLoop ==
    IF oi < Len(object_types)
    THEN oi' = oi + 1 /\ pi' = pi
    ELSE oi' = 1 /\ pi' = pi + 1

FinishTaskDropsFailure(r) ==
    /\ results' = IF r.success THEN Put(results, remote_path, r) ELSE results
    /\ completed' = Append(completed, <<pi, oi>>)
    /\ AdvanceLoop
    /\ pc' = "loop"

\* download_object returns {remote_path: result}; results.update(chunk_results)
FinishTask(r) ==
    /\ results' = Put(results, remote_path, r)
    /\ completed' = Append(completed, <<pi, oi>>)
    /\ AdvanceLoop
    /\ pc' = "loop"

InLoopWhileFetching == pc \in {"loop", "fetch"} /\ pi <= Len(processes)

\* the loops of download_dataset call download_object and wait for its return
InLoop == pc = "loop" /\ pi <= Len(processes)

InFetch == pc = "fetch" /\ mi <= Len(base_urls)

Inputs == <<env, pileup, processes, object_types, resume, max_workers, start_event,
            end_event>>

\* get_object_path raises ValueError, which leaves download_dataset
DownloadObjectInvalidPath ==
    /\ InLoop
    /\ ~ValidRequest(processes[pi], object_types[oi])
    /\ pc' = "raised"
    /\ raised' = "ValueError"
    /\ UNCHANGED <<Inputs, DiscVars, XVars, CliVars, started, targets, pi, oi, results, remote_path, mi, last_error, disk,
                   attempts, completed, trace>>

\* local_dir.mkdir (line 240) or local_path.parent.mkdir (line 139) raises
\* OSError, outside any try block
DownloadObjectMkdirFails ==
    /\ InLoop
    /\ ValidRequest(processes[pi], object_types[oi])
    /\ "mkdir_fails" \in env.fs
    /\ pc' = "raised"
    /\ raised' = "OSError"
    /\ UNCHANGED <<Inputs, DiscVars, XVars, CliVars, started, targets, pi, oi, results, remote_path, mi, last_error, disk,
                   attempts, completed, trace>>

\* download_object up to the head of the mirror loop
DownloadObjectBegin ==
    /\ InLoop
    /\ ValidRequest(processes[pi], object_types[oi])
    /\ remote_path' = get_object_path(pileup, processes[pi], object_types[oi],
                                      start_event, end_event)
    /\ mi' = 1
    /\ last_error' = NoError
    /\ attempts' = <<>>
    /\ trace' = <<>>
    /\ started' = Append(started, <<pi, oi>>)
    /\ targets' = targets \cup {[remote |-> remote_path', local |-> local_path']}
    /\ pc' = "fetch"
    /\ UNCHANGED <<Inputs, DiscVars, XVars, CliVars, pi, oi, results, raised, disk, completed>>

\* session.get or raise_for_status raises: nothing is written
MirrorRequestFails ==
    /\ InFetch
    /\ \E e \in env.net \cap {"ConnectionError", "HTTPError"} :
         LET err == [msg |-> e, cause |-> <<e, base_urls[mi]>>] IN
         /\ last_error' = RecordError(last_error, err)
         /\ attempts' = Append(attempts, Attempt(base_urls[mi], "request_failed", err, <<>>))
    /\ trace' = Append(trace, "get")
    /\ mi' = NextMirror(mi)
    /\ UNCHANGED <<Inputs, DiscVars, XVars, CliVars, started, targets, pc, pi, oi, results, raised, remote_path, disk, completed>>

\* open(local_path, 'wb') raises OSError: the file is left as it was
MirrorOpenFails ==
    /\ InFetch
    /\ "open_fails" \in env.fs
    /\ LET err == [msg |-> "OSError", cause |-> <<"OSError", 0>>] IN
         /\ last_error' = RecordError(last_error, err)
         /\ attempts' = Append(attempts, Attempt(base_urls[mi], "open_failed", err, <<>>))
    /\ trace' = Append(trace, "get")
    /\ mi' = NextMirror(mi)
    /\ UNCHANGED <<Inputs, DiscVars, XVars, CliVars, started, targets, pc, pi, oi, results, raised, remote_path, disk, completed>>

\* iter_content raises after k bytes: the file holds the k bytes written
MirrorStreamBreaks ==
    /\ InFetch
    /\ "stream_raises" \in env.net
    /\ \E c \in env.codes, k \in 0..(FileLen - 1) :
         LET body == Prefix(FileBytes(c, base_urls[mi]), k)
             err == [msg |-> "ChunkedEncodingError",
                     cause |-> <<"ChunkedEncodingError", base_urls[mi]>>]
         IN /\ disk' = WriteChunks(OpenForWrite(disk, local_path), local_path, body)
            /\ last_error' = RecordError(last_error, err)
            /\ attempts' = Append(attempts, Attempt(base_urls[mi], "stream_broken", err, body))
    /\ trace' = trace \o <<"get", "write">>
    /\ mi' = NextMirror(mi)
    /\ UNCHANGED <<Inputs, DiscVars, XVars, CliVars, started, targets, pc, pi, oi, results, raised, remote_path, completed>>

\* the bodies a stream that ends without an exception may have delivered:
\* the whole file, or (a dropped connection that is not reported) a prefix
Delivered(m) ==
    IF m \notin env.reachable THEN {}
    ELSE {FileBytes(c, m) : c \in env.codes}
         \cup (IF "stream_short" \in env.net
               THEN {Prefix(FileBytes(c, m), k) : c \in env.codes, k \in 0..(FileLen - 1)}
               ELSE {})

ReturnAfterStreamRetriesInvalid(r) ==
    IF r.success
    THEN FinishTask(r) /\ UNCHANGED <<mi, last_error>>
    ELSE /\ mi' = NextMirror(mi)
         /\ last_error' = RecordError(last_error, r.error)
         /\ UNCHANGED <<pc, pi, oi, results, completed>>

\* lines 172-178 and 183-187: both the success and the ValueError branch
\* return from inside the mirror loop
ReturnAfterStream(r) == FinishTask(r) /\ UNCHANGED <<mi, last_error>>

\* the stream ends: size, validation, checksum, and the result is returned
MirrorStreamEnds ==
    /\ InFetch
    /\ \E body \in Delivered(base_urls[mi]) :
         LET written == WriteChunks(OpenForWrite(disk, local_path), local_path, body)
             file == written[local_path]
         IN
         /\ disk' = DiskAfterStream(written, local_path, file)
         /\ attempts' = Append(attempts,
                               Attempt(base_urls[mi],
                                       IF Len(body) = FileLen THEN "complete" ELSE "short",
                                       NoError, body))
         /\ trace' = trace \o <<"get">> \o StreamTrace(file)
         /\ ReturnAfterStream(StreamResult(local_path, file))
    /\ UNCHANGED <<Inputs, DiscVars, XVars, CliVars, started, targets, raised, remote_path>>

\* every base URL failed
AllMirrorsFailed ==
    /\ pc = "fetch"
    /\ mi > Len(base_urls)
    /\ FinishTask(ExhaustedResult(local_path, last_error))
    /\ UNCHANGED <<Inputs, DiscVars, XVars, CliVars, started, targets, raised, remote_path, mi, last_error, disk, attempts, trace>>

\* download_dataset returns results
DownloadDatasetReturn ==
    /\ pc = "loop"
    /\ pi > Len(processes)
    /\ pc' = "returned"
    /\ UNCHANGED <<Inputs, DiscVars, XVars, CliVars, started, targets, pi, oi, results, raised, remote_path, mi, last_error,
                   disk, attempts, completed, trace>>

Next ==
    \/ DownloadObjectInvalidPath
    \/ DownloadObjectMkdirFails
    \/ DownloadObjectBegin
    \/ MirrorRequestFails
    \/ MirrorOpenFails
    \/ MirrorStreamBreaks
    \/ MirrorStreamEnds
    \/ AllMirrorsFailed
    \/ DownloadDatasetReturn

----------------------------------------------------------------------------
(* Initial states *)

\* the base URLs a connection can be opened to
AllMirrors == {base_urls[i] : i \in 1..NumMirrors}

AllNet == {"ConnectionError", "HTTPError", "stream_raises", "stream_short"}

AllFs == {"mkdir_fails", "open_fails"}

NoPath == get_object_path("none", "none", "tracks", 0, 0)

NoProbe == [path |-> NoPath, resp |-> <<>>,
            out |-> [exists |-> FALSE, url |-> <<0, NoPath>>, contacted |-> 0]]

NoEvent == -1

\* the discovery is not running
InitNoDiscovery ==
    /\ max_events = 0
    /\ server = [full |-> 0, tail |-> -1, mode |-> "single"]
    /\ d_pc = "idle"
    /\ current_chunk = 0
    /\ last_found = -1
    /\ tail_event = -1
    /\ d_result = NoEvent
    /\ d_raised = "None"
    /\ probe = NoProbe
    /\ fwd_probes = <<>>

\* download_dataset has built nothing yet
InitNoResults ==
    /\ pi = 1
    /\ oi = 1
    /\ results = EmptyMap
    /\ raised = "None"
    /\ remote_path = NoPath
    /\ mi = 1
    /\ last_error = NoError
    /\ attempts = <<>>
    /\ completed = <<>>
    /\ trace = <<>>
    /\ started = <<>>
    /\ targets = {}

NoExit == -1

\* the CLI download command is not running; the downloader exists
InitNoCli ==
    /\ args = [channels |-> <<>>, objects |-> <<>>, pileup |-> <<>>, events |-> 0,
               workers |-> 4, no_resume |-> FALSE]
    /\ DATASET_SIZES = EmptyMap
    /\ constructed = "ok"
    /\ cli_pc = "idle"
    /\ cli_pos = [pl |-> 1, ch |-> 1, ob |-> 1, chunk |-> 0]
    /\ cli_results = EmptyMap
    /\ cli_exit = NoExit
    /\ cli_asked = {}
    /\ cli_warned = <<>>

\* no XRootDClient call is running
InitNoXrootd ==
    /\ xrd = [bad |-> {}, open_ok |-> TRUE, bytes |-> <<>>, bad_offset |-> -1]
    /\ x_call = [op |-> "none", path |-> <<>>, recursive |-> FALSE, chunk_size |-> 1]
    /\ x_pc = "idle"
    /\ x_offset = 0
    /\ x_local = <<>>
    /\ x_out = [kind |-> "none"]

InitCommon ==
    /\ InitNoDiscovery
    /\ InitNoCli
    /\ InitNoXrootd
    /\ InitNoResults
    /\ pileup = "pileup-10"
    /\ start_event = 0
    /\ end_event = EVENTS_PER_FILE - 1
    /\ pc = "loop"

\* the file a single fetch of ttbar tracks writes
TheLocalPath == LocalPath(get_object_path("pileup-10", "ttbar", "tracks", 0, EVENTS_PER_FILE - 1))

\* A single download_object call, against any network and file system
\* behaviour, with or without a file left at the local path by an earlier run.
Init ==
    /\ InitCommon
    /\ env = [net |-> AllNet, fs |-> AllFs, codes |-> ContainerCodes, stable |-> TRUE,
              reachable |-> AllMirrors]
    /\ processes \in {<<"ttbar">>, <<"invalid">>}
    /\ object_types \in {<<"tracks">>, <<"invalid">>}
    /\ resume \in BOOLEAN
    /\ max_workers = 4
    /\ disk \in {EmptyMap}
            \cup {Put(EmptyMap, TheLocalPath, Prefix(FileBytes(1, base_urls[1]), k)) :
                    k \in 0..FileLen}

Spec == Init /\ [][Next]_vars

\* The batch loop under a network whose mirrors either refuse the connection
\* or serve a whole container, valid or not.
NextBatch ==
    \/ DownloadObjectInvalidPath
    \/ DownloadObjectMkdirFails
    \/ DownloadObjectBegin
    \/ MirrorRequestFails
    \/ MirrorStreamEnds
    \/ AllMirrorsFailed
    \/ DownloadDatasetReturn

ObjectTypeLists ==
    {<<"tracks">>, <<"particles">>, <<"tracks", "particles">>, <<"tracks", "tracks">>,
     <<"tracks", "invalid">>}

\* A batch: lists of processes and object types.
InitBatch ==
    /\ InitCommon
    /\ env = [net |-> {"ConnectionError"}, fs |-> {"mkdir_fails"}, codes |-> {1, 2},
              stable |-> TRUE, reachable |-> AllMirrors]
    /\ processes \in Lists({"ttbar", "qcd", "invalid"}, MaxProcesses)
    /\ object_types \in ObjectTypeLists
    /\ resume = TRUE
    /\ max_workers \in {1, 4}
    /\ disk = EmptyMap

SpecBatch == InitBatch /\ [][NextBatch]_vars

----------------------------------------------------------------------------
(* _check_file_exists and find_last_available_event *)

\* The chunk files of the data server: `full` chunks with the nominal name,
\* back to back from event 0, then possibly a shorter last chunk holding
\* `tail` + 1 events, stored under its own end event ("single") or under
\* every end event up to it ("upto").
Present(srv, s, e) ==
    \/ /\ s % EVENTS_PER_FILE = 0
       /\ s >= 0
       /\ s \div EVENTS_PER_FILE < srv.full
       /\ e = s + EVENTS_PER_FILE - 1
    \/ /\ srv.tail >= 0
       /\ s = srv.full * EVENTS_PER_FILE
       /\ IF srv.mode = "single" THEN e = s + srv.tail ELSE s <= e /\ e <= s + srv.tail

\* the events a remote path names, read back from its file name
PathStart(rp) == rp.name[6]

PathEnd(rp) == rp.name[7]

\* what a healthy mirror answers to HEAD
Truth(rp) == IF Present(server, PathStart(rp), PathEnd(rp)) THEN 200 ELSE 404

\* what one mirror may answer: a status code, or 0 for a request that raises
\* (a mirror that has the file may also miss it or answer a server error)
MirrorAnswers(rp) ==
    {Truth(rp)}
    \cup (IF env.stable THEN {} ELSE IF Truth(rp) = 200 THEN {0, 404, 500} ELSE {0})

\* f"{base_url.rstrip('/')}/{remote_path.lstrip('/')}"
Url(base_url, rp) == <<base_url, rp>>

NoUrl == <<0, NoPath>>

RECURSIVE CheckFrom(_, _, _)
\* the loop of _check_file_exists from the i-th base URL on
CheckFrom(rp, resp, i) ==
    IF i > Len(base_urls)
    THEN [exists |-> FALSE, url |-> NoUrl, contacted |-> i - 1]
    ELSE IF resp[i] = 200
    THEN [exists |-> TRUE, url |-> Url(base_urls[i], rp), contacted |-> i]
    ELSE CheckFrom(rp, resp, i + 1)

RECURSIVE CheckFromAnyStatus(_, _, _)
CheckFromAnyStatus(rp, resp, i) ==
    IF i > Len(base_urls)
    THEN [exists |-> FALSE, url |-> NoUrl, contacted |-> i - 1]
    ELSE IF resp[i] # 0
    THEN [exists |-> TRUE, url |-> Url(base_urls[i], rp), contacted |-> i]
    ELSE CheckFromAnyStatus(rp, resp, i + 1)

CheckStatusIgnored(rp, resp) == CheckFromAnyStatus(rp, resp, 1)

_check_file_exists(rp, resp) == CheckFrom(rp, resp, 1)

Probe(rp, resp) == [path |-> rp, resp |-> resp, out |-> _check_file_exists(rp, resp)]

ChunkPath(s, e) == get_object_path(pileup, processes[1], object_types[1], s, e)

WithinLimitAlways(c) == TRUE

\* line 345: while current_chunk <= max_events
WithinLimit(c) == c <= max_events

NextChunkByOne(c) == c + 1

\* line 361: current_chunk += EVENTS_PER_FILE
NextChunk(c) == c + EVENTS_PER_FILE

AfterForwardScanBestEffort(lf) == "tail"

\* lines 365-369: after the forward scan
AfterForwardScan(lf) == IF lf = -1 THEN "raised" ELSE "tail"

FirstTailEventBelowNominal(lcs) == lcs + EVENTS_PER_FILE - 2

\* line 370: the range of end_event starts at last_chunk_start + EVENTS_PER_FILE - 1
FirstTailEvent(lcs) == lcs + EVENTS_PER_FILE - 1

LeaveForwardScan(lf) ==
    /\ d_pc' = AfterForwardScan(lf)
    /\ d_raised' = IF AfterForwardScan(lf) = "raised" THEN "ValueError" ELSE "None"
    /\ tail_event' = IF AfterForwardScan(lf) = "raised" THEN tail_event
                     ELSE FirstTailEvent(lf)

TailFallbackIsChunkStart(lcs) == lcs

\* line 382: return last_chunk_start + EVENTS_PER_FILE - 1
TailFallbackEvent(lcs) == lcs + EVENTS_PER_FILE - 1

FetchVars == <<resume, max_workers, end_event, pc, pi, oi, results, raised, remote_path,
               mi, last_error, disk, attempts, completed, trace, started, targets>>

DiscInputs == <<env, pileup, processes, object_types, start_event, max_events, server>>

\* the while loop: the chunk at the cursor exists
ForwardProbeFound ==
    /\ d_pc = "forward"
    /\ WithinLimit(current_chunk)
    /\ LET rp == ChunkPath(current_chunk, current_chunk + EVENTS_PER_FILE - 1) IN
       \E resp \in [1..Len(base_urls) -> MirrorAnswers(rp)] :
         /\ _check_file_exists(rp, resp).exists
         /\ probe' = Probe(rp, resp)
         /\ fwd_probes' = Append(fwd_probes, [cursor |-> current_chunk, path |-> rp,
                                            exists |-> TRUE])
    /\ last_found' = current_chunk
    /\ current_chunk' = NextChunk(current_chunk)
    /\ UNCHANGED <<DiscInputs, FetchVars, CliVars, XVars, d_pc, tail_event, d_result, d_raised>>

\* the while loop: the chunk at the cursor does not exist, break
ForwardProbeAbsent ==
    /\ d_pc = "forward"
    /\ WithinLimit(current_chunk)
    /\ LET rp == ChunkPath(current_chunk, current_chunk + EVENTS_PER_FILE - 1) IN
       \E resp \in [1..Len(base_urls) -> MirrorAnswers(rp)] :
         /\ ~_check_file_exists(rp, resp).exists
         /\ probe' = Probe(rp, resp)
         /\ fwd_probes' = Append(fwd_probes, [cursor |-> current_chunk, path |-> rp,
                                            exists |-> FALSE])
    /\ LeaveForwardScan(last_found)
    /\ UNCHANGED <<DiscInputs, FetchVars, CliVars, XVars, current_chunk, last_found, d_result>>

\* the while condition fails: the cursor is beyond max_events
ForwardScanLimit ==
    /\ d_pc = "forward"
    /\ ~WithinLimit(current_chunk)
    /\ LeaveForwardScan(last_found)
    /\ UNCHANGED <<DiscInputs, FetchVars, CliVars, XVars, current_chunk, last_found, d_result,
                   probe, fwd_probes>>

\* the for loop: the file named (last_chunk_start, end_event) exists
TailProbeFound ==
    /\ d_pc = "tail"
    /\ tail_event >= last_found
    /\ LET rp == ChunkPath(last_found, tail_event) IN
       \E resp \in [1..Len(base_urls) -> MirrorAnswers(rp)] :
         /\ _check_file_exists(rp, resp).exists
         /\ probe' = Probe(rp, resp)
    /\ d_result' = tail_event
    /\ d_pc' = "done"
    /\ UNCHANGED <<DiscInputs, FetchVars, CliVars, XVars, current_chunk, last_found, tail_event,
                   d_raised, fwd_probes>>

\* the for loop: it does not exist, on to the next smaller end_event
TailProbeAbsent ==
    /\ d_pc = "tail"
    /\ tail_event >= last_found
    /\ LET rp == ChunkPath(last_found, tail_event) IN
       \E resp \in [1..Len(base_urls) -> MirrorAnswers(rp)] :
         /\ ~_check_file_exists(rp, resp).exists
         /\ probe' = Probe(rp, resp)
    /\ tail_event' = tail_event - 1
    /\ UNCHANGED <<DiscInputs, FetchVars, CliVars, XVars, d_pc, current_chunk, last_found,
                   d_result, d_raised, fwd_probes>>

\* line 382: no end_event was found
TailFallback ==
    /\ d_pc = "tail"
    /\ tail_event < last_found
    /\ d_result' = TailFallbackEvent(last_found)
    /\ d_pc' = "done"
    /\ UNCHANGED <<DiscInputs, FetchVars, CliVars, XVars, current_chunk, last_found, tail_event,
                   d_raised, probe, fwd_probes>>

NextDiscover ==
    \/ ForwardProbeFound
    \/ ForwardProbeAbsent
    \/ ForwardScanLimit
    \/ TailProbeFound
    \/ TailProbeAbsent
    \/ TailFallback

\* the servers the discovery is run against
Servers ==
    {[full |-> n, tail |-> -1, mode |-> "single"] : n \in 0..MaxChunks}
    \cup {[full |-> n, tail |-> 500, mode |-> m] : n \in 0..MaxChunks, m \in {"single", "upto"}}

\* A find_last_available_event call, against mirrors that answer the truth
\* (stable) or that may also fail or miss a file at any probe.
InitDiscover ==
    /\ InitNoResults
    /\ InitNoCli
    /\ InitNoXrootd
    /\ pc = "idle"
    /\ pileup = "pileup-10"
    /\ processes = <<"ttbar">>
    /\ object_types = <<"tracks">>
    /\ resume = TRUE
    /\ max_workers = 4
    /\ end_event = EVENTS_PER_FILE - 1
    /\ disk = EmptyMap
    /\ env \in {[net |-> {}, fs |-> {}, codes |-> {}, stable |-> b,
                reachable |-> AllMirrors] : b \in BOOLEAN}
    /\ start_event \in {0, EVENTS_PER_FILE}
    /\ max_events \in {500, 2 * EVENTS_PER_FILE + 500, 100 * EVENTS_PER_FILE}
    /\ server \in Servers
    /\ d_pc = "forward"
    /\ current_chunk = start_event
    /\ last_found = -1
    /\ tail_event = -1
    /\ d_result = NoEvent
    /\ d_raised = "None"
    /\ probe = NoProbe
    /\ fwd_probes = <<>>

SpecDiscover == InitDiscover /\ [][NextDiscover]_vars

----------------------------------------------------------------------------
(* scripts/cli.py: the download command *)

Min(a, b) == IF a < b THEN a ELSE b

\* min(args.events, total_events)
events_to_download(n, total_events) == Min(n, total_events)

\* (events_to_download + EVENTS_PER_FILE - 1) // EVENTS_PER_FILE
num_files(n, total_events) ==
    (events_to_download(n, total_events) + EVENTS_PER_FILE - 1) \div EVENTS_PER_FILE

chunk_start(chunk) == chunk * EVENTS_PER_FILE

chunk_end_nominal(chunk, n, total_events) == (chunk + 1) * EVENTS_PER_FILE - 1

chunk_end(chunk, n, total_events) ==
    Min((chunk + 1) * EVENTS_PER_FILE - 1, events_to_download(n, total_events) - 1)

CliPileup == args.pileup[cli_pos.pl]

CliProcess == args.channels[cli_pos.ch]

CliObject == args.objects[cli_pos.ob]

\* the head of an iteration of the three nested for loops
InCombo == cli_pc = "combo" /\ cli_pos.pl <= Len(args.pileup)

\* the next iteration of the object loop, the channel loop or the pileup loop
NextCombo ==
    IF cli_pos.ob < Len(args.objects)
    THEN [cli_pos EXCEPT !.ob = @ + 1, !.chunk = 0]
    ELSE IF cli_pos.ch < Len(args.channels)
         THEN [cli_pos EXCEPT !.ch = @ + 1, !.ob = 1, !.chunk = 0]
         ELSE [cli_pos EXCEPT !.pl = @ + 1, !.ch = 1, !.ob = 1, !.chunk = 0]

\* results.update(chunk_results)
Update(d, e) == [k \in (DOMAIN d) \cup (DOMAIN e) |-> IF k \in DOMAIN e THEN e[k] ELSE d[k]]

\* what the download command names when it calls download_dataset
Asked(pu, process, object_name, s, e) ==
    [pileup |-> pu, process |-> process, object |-> object_name, start |-> s, end |-> e]

CliFetchVars == <<pc, pi, oi, results, raised, remote_path, mi, last_error, disk, attempts,
                  completed, trace, started, targets>>

CliArgs == <<args, DATASET_SIZES>>

\* downloader = DataDownloader(): __init__ stores the URL list and opens a
\* requests.Session; it sends no request
CliConstruct ==
    /\ cli_pc = "new"
    /\ constructed' = "ok"
    /\ cli_pc' = "combo"
    /\ UNCHANGED <<Inputs, DiscVars, XVars, CliFetchVars, CliArgs, cli_pos, cli_results, cli_exit,
                   cli_asked, cli_warned>>

\* process not in DATASET_SIZES: a warning, and the loop goes on
CliNoSizeInfo ==
    /\ InCombo
    /\ CliProcess \notin DOMAIN DATASET_SIZES
    /\ cli_warned' = Append(cli_warned, "No dataset size information")
    /\ cli_pos' = NextCombo
    /\ UNCHANGED <<Inputs, DiscVars, XVars, CliFetchVars, CliArgs, constructed, cli_pc, cli_results,
                   cli_exit, cli_asked>>

\* an iteration of the chunk loop up to the download_dataset call
CliCallDownloadDataset ==
    /\ InCombo
    /\ CliProcess \in DOMAIN DATASET_SIZES
    /\ cli_pos.chunk < num_files(args.events, DATASET_SIZES[CliProcess])
    /\ pileup' = CliPileup
    /\ processes' = <<CliProcess>>
    /\ object_types' = <<CliObject>>
    /\ max_workers' = args.workers
    /\ resume' = ~args.no_resume
    /\ start_event' = chunk_start(cli_pos.chunk)
    /\ end_event' = chunk_end(cli_pos.chunk, args.events, DATASET_SIZES[CliProcess])
    /\ cli_asked' = cli_asked \cup {Asked(pileup', CliProcess, CliObject, start_event',
                                          end_event')}
    /\ pc' = "loop"
    /\ pi' = 1
    /\ oi' = 1
    /\ results' = EmptyMap
    /\ raised' = "None"
    /\ completed' = <<>>
    /\ started' = <<>>
    /\ cli_pc' = "call"
    /\ UNCHANGED <<env, DiscVars, XVars, CliArgs, remote_path, mi, last_error, disk, attempts, trace,
                   targets, constructed, cli_pos, cli_results, cli_exit, cli_warned>>

\* download_dataset returned: results.update(chunk_results), next chunk
CliCallReturns ==
    /\ cli_pc = "call"
    /\ pc = "returned"
    /\ cli_results' = Update(cli_results, results)
    /\ cli_pos' = [cli_pos EXCEPT !.chunk = @ + 1]
    /\ cli_pc' = "combo"
    /\ pc' = "idle"
    /\ UNCHANGED <<Inputs, DiscVars, XVars, CliArgs, pi, oi, results, raised, remote_path, mi,
                   last_error, disk, attempts, completed, trace, started, targets,
                   constructed, cli_exit, cli_asked, cli_warned>>

\* except Exception as e: a warning, and `continue` to the next object type
CliCallRaises ==
    /\ cli_pc = "call"
    /\ pc = "raised"
    /\ cli_warned' = Append(cli_warned, raised)
    /\ cli_pos' = NextCombo
    /\ cli_pc' = "combo"
    /\ pc' = "idle"
    /\ UNCHANGED <<Inputs, DiscVars, XVars, CliArgs, pi, oi, results, raised, remote_path, mi,
                   last_error, disk, attempts, completed, trace, started, targets,
                   constructed, cli_results, cli_exit, cli_asked>>

\* the chunk loop is over
CliComboDone ==
    /\ InCombo
    /\ CliProcess \in DOMAIN DATASET_SIZES
    /\ cli_pos.chunk >= num_files(args.events, DATASET_SIZES[CliProcess])
    /\ cli_pos' = NextCombo
    /\ UNCHANGED <<Inputs, DiscVars, XVars, CliFetchVars, CliArgs, constructed, cli_pc, cli_results,
                   cli_exit, cli_asked, cli_warned>>

\* the summary: sys.exit(1) when some entry of results failed
CliExit ==
    /\ cli_pc = "combo"
    /\ cli_pos.pl > Len(args.pileup)
    /\ cli_exit' = IF \E k \in DOMAIN cli_results : ~cli_results[k].success THEN 1 ELSE 0
    /\ cli_pc' = "exited"
    /\ UNCHANGED <<Inputs, DiscVars, XVars, CliFetchVars, CliArgs, constructed, cli_pos, cli_results,
                   cli_asked, cli_warned>>

NextCli ==
    \/ CliConstruct
    \/ CliNoSizeInfo
    \/ CliCallDownloadDataset
    \/ CliCallReturns
    \/ CliCallRaises
    \/ CliComboDone
    \/ CliExit
    \/ DownloadObjectInvalidPath
    \/ DownloadObjectMkdirFails
    \/ DownloadObjectBegin
    \/ MirrorRequestFails
    \/ MirrorStreamEnds
    \/ AllMirrorsFailed
    \/ DownloadDatasetReturn

\* A run of `colliderml download`: the mirrors are all reachable or all
\* unreachable, the output directory can or cannot be created.
InitCli ==
    /\ InitNoDiscovery
    /\ InitNoResults
    /\ InitNoXrootd
    /\ pc = "idle"
    /\ pileup = "pileup-10"
    /\ processes = <<"ttbar">>
    /\ object_types = <<"tracks">>
    /\ resume = TRUE
    /\ max_workers = 4
    /\ start_event = 0
    /\ end_event = EVENTS_PER_FILE - 1
    /\ disk = EmptyMap
    /\ env \in {[net |-> {"ConnectionError"}, fs |-> f, codes |-> {1}, stable |-> TRUE,
                 reachable |-> r] : f \in {{}, {"mkdir_fails"}}, r \in {{}, AllMirrors}}
    /\ \/ /\ args \in [channels : {<<"ttbar">>, <<"qcd", "ttbar">>, <<"ttbar", "unknown">>},
                       objects : {<<"tracks">>, <<"bogus", "tracks">>},
                       pileup : {<<"pileup-10">>, <<"pileup-10", "pileup-200">>},
                       events : {0, 1, EVENTS_PER_FILE, EVENTS_PER_FILE + 1,
                                 5 * EVENTS_PER_FILE},
                       workers : {4},
                       no_resume : {FALSE}]
          /\ DATASET_SIZES \in {[p \in {"ttbar"} |-> 2 * EVENTS_PER_FILE - 500],
                                [p \in {"ttbar", "qcd"} |->
                                    IF p = "ttbar" THEN 2 * EVENTS_PER_FILE ELSE 1]}
       \/ /\ args \in [channels : {<<"ttbar">>},
                       objects : {<<"tracks">>},
                       pileup : {<<"pileup-10">>},
                       events : {-EVENTS_PER_FILE, -1, EVENTS_PER_FILE - 1,
                                 2 * EVENTS_PER_FILE, 2 * EVENTS_PER_FILE + 1,
                                 3 * EVENTS_PER_FILE + 500},
                       workers : {4},
                       no_resume : {FALSE}]
          /\ DATASET_SIZES \in {[p \in {"ttbar"} |-> t] :
                                  t \in {1, EVENTS_PER_FILE, 2 * EVENTS_PER_FILE + 1,
                                         4 * EVENTS_PER_FILE}}
    /\ constructed = "none"
    /\ cli_pc = "new"
    /\ cli_pos = [pl |-> 1, ch |-> 1, ob |-> 1, chunk |-> 0]
    /\ cli_results = EmptyMap
    /\ cli_exit = NoExit
    /\ cli_asked = {}
    /\ cli_warned = <<>>

SpecCli == InitCli /\ [][NextCli]_vars

----------------------------------------------------------------------------
(* colliderml/core/io/xrootd.py: XRootDClient *)

XFile(name) == [name |-> name, is_dir |-> FALSE]

XDir(name) == [name |-> name, is_dir |-> TRUE]

\* The directories of the server and what dirlist answers for each.
XTree ==
    (<<"d">> :> <<XFile("f1"), XDir("a"), XDir("b")>>)
    @@ (<<"d", "a">> :> <<XFile("f2"), XDir("c")>>)
    @@ (<<"d", "a", "c">> :> <<XFile("f3")>>)
    @@ (<<"d", "b">> :> <<XFile("f4")>>)

\* status.message of a failing request on a path
XMessage(path) == <<"[ERROR]", path>>

\* raise RuntimeError(f"{what} {path}: {status.message}")
XRaise(what, path) ==
    [kind |-> "raised", exception |-> "RuntimeError", what |-> what, path |-> path,
     message |-> XMessage(path)]

XReturn(paths) == [kind |-> "returned", paths |-> paths]

Names(listing) == [i \in 1..Len(listing) |-> listing[i].name]

SubListingSkipsFailed(acc, sub) ==
    IF acc.kind = "raised" THEN acc
    ELSE IF sub.kind = "raised" THEN acc
    ELSE XReturn(acc.paths \o sub.paths)

\* subpaths = self.list_directory(...); paths.extend(subpaths): an exception
\* of the recursive call leaves the caller as well
SubListing(acc, sub) ==
    IF acc.kind = "raised" THEN acc
    ELSE IF sub.kind = "raised" THEN sub
    ELSE XReturn(acc.paths \o sub.paths)

RECURSIVE list_directory(_, _), ListItems(_, _, _, _)
list_directory(path, recursive) ==
    IF path \in xrd.bad
    THEN XRaise("Failed to list directory", path)
    ELSE IF recursive
         THEN ListItems(path, XTree[path], 1, XReturn(Names(XTree[path])))
         ELSE XReturn(Names(XTree[path]))

\* for item in listing: if item is a directory, list it and extend paths
ListItems(path, listing, i, acc) ==
    IF i > Len(listing) \/ acc.kind = "raised"
    THEN acc
    ELSE IF listing[i].is_dir
         THEN ListItems(path, listing, i + 1,
                        SubListing(acc, list_directory(Append(path, listing[i].name), TRUE)))
         ELSE ListItems(path, listing, i + 1, acc)

\* f.read(offset=offset, size=chunk_size) on the remote file
XReadData(offset, size) ==
    SubSeq(xrd.bytes, offset + 1, Min(offset + size, Len(xrd.bytes)))

XInputs == <<xrd, x_call>>

NotXVars == <<Inputs, DiscVars, CliVars, CliFetchVars>>

\* a list_directory call, from entry to return or raise
XListDirectory ==
    /\ x_pc = "called"
    /\ x_call.op = "list_directory"
    /\ x_out' = list_directory(x_call.path, x_call.recursive)
    /\ x_pc' = IF x_out'.kind = "raised" THEN "raised" ELSE "returned"
    /\ UNCHANGED <<XInputs, NotXVars, x_offset, x_local>>

\* download_file: f.open answers a status that is not ok
XOpenFails ==
    /\ x_pc = "called"
    /\ x_call.op = "download_file"
    /\ ~xrd.open_ok
    /\ x_out' = XRaise("Failed to open file", x_call.path)
    /\ x_pc' = "raised"
    /\ UNCHANGED <<XInputs, NotXVars, x_offset, x_local>>

\* download_file: the remote file is open, the local file is created
XOpen ==
    /\ x_pc = "called"
    /\ x_call.op = "download_file"
    /\ xrd.open_ok
    /\ x_local' = <<>>
    /\ x_offset' = 0
    /\ x_pc' = "reading"
    /\ UNCHANGED <<XInputs, NotXVars, x_out>>

\* a read answers a status that is not ok
XReadFails ==
    /\ x_pc = "reading"
    /\ x_offset = xrd.bad_offset
    /\ x_out' = XRaise("Failed to read file", x_call.path)
    /\ x_pc' = "raised"
    /\ UNCHANGED <<XInputs, NotXVars, x_offset, x_local>>

\* a read answers data: it is written and the offset moves on
XReadChunk ==
    /\ x_pc = "reading"
    /\ x_offset # xrd.bad_offset
    /\ LET data == XReadData(x_offset, x_call.chunk_size) IN
       /\ data # <<>>
       /\ x_local' = x_local \o data
       /\ x_offset' = x_offset + Len(data)
    /\ UNCHANGED <<XInputs, NotXVars, x_pc, x_out>>

\* a read answers no data: download_file returns
XReadEnd ==
    /\ x_pc = "reading"
    /\ x_offset # xrd.bad_offset
    /\ XReadData(x_offset, x_call.chunk_size) = <<>>
    /\ x_out' = [kind |-> "returned"]
    /\ x_pc' = "returned"
    /\ UNCHANGED <<XInputs, NotXVars, x_offset, x_local>>

NextXrootd ==
    \/ XListDirectory
    \/ XOpenFails
    \/ XOpen
    \/ XReadFails
    \/ XReadChunk
    \/ XReadEnd

\* One XRootDClient call: list_directory on a directory of the server, some
\* of whose directories cannot be listed, or download_file of a remote file
\* that may fail to open or to be read at some offset.
InitXrootd ==
    /\ InitNoDiscovery
    /\ InitNoResults
    /\ InitNoCli
    /\ pc = "idle"
    /\ pileup = "pileup-10"
    /\ processes = <<"ttbar">>
    /\ object_types = <<"tracks">>
    /\ resume = TRUE
    /\ max_workers = 4
    /\ start_event = 0
    /\ end_event = EVENTS_PER_FILE - 1
    /\ disk = EmptyMap
    /\ env = [net |-> {}, fs |-> {}, codes |-> {}, stable |-> TRUE, reachable |-> AllMirrors]
    /\ \/ /\ x_call \in [op : {"list_directory"}, path : DOMAIN XTree, recursive : BOOLEAN,
                         chunk_size : {1}]
          /\ xrd \in [bad : SUBSET (DOMAIN XTree), open_ok : {TRUE}, bytes : {<<>>},
                      bad_offset : {-1}]
       \/ /\ x_call \in [op : {"download_file"}, path : {<<"d", "f1">>},
                         recursive : {FALSE}, chunk_size : 1..2]
          /\ xrd \in [bad : {{}}, open_ok : BOOLEAN,
                      bytes : {[i \in 1..n |-> i] : n \in 0..XFileLen},
                      bad_offset : -1..XFileLen]
    /\ x_pc = "called"
    /\ x_offset = 0
    /\ x_local = <<>>
    /\ x_out = [kind |-> "none"]

SpecXrootd == InitXrootd /\ [][NextXrootd]_vars

----------------------------------------------------------------------------
(* Notions the properties share *)

Range(seq) == {seq[i] : i \in 1..Len(seq)}

\* the number of tasks of the batch
NumTasks == Len(processes) * Len(object_types)

AllPairs == (1..Len(processes)) \X (1..Len(object_types))

NoDuplicates(seq) == \A i, j \in 1..Len(seq) : seq[i] = seq[j] => i = j

\* the remote paths the batch asks for (defined when every request is valid)
RequestedPaths ==
    {get_object_path(pileup, processes[p[1]], object_types[p[2]], start_event, end_event) :
        p \in AllPairs}

\* the fetch of remote_path has returned its result
FetchReturned == completed # <<>> /\ pc # "fetch" /\ remote_path \in DOMAIN results

TheResult == results[remote_path]

LastAttempt == attempts[Len(attempts)]

RequestFailed(a) == a.outcome = "request_failed"

MirrorFailed(a) == a.outcome \in {"request_failed", "open_failed", "stream_broken"}

ServedCorrectly(a) == a.outcome = "complete" /\ _validate_hdf5(a.body).ok

StructurallyInvalid(a) == a.outcome \in {"complete", "short"} /\ ~_validate_hdf5(a.body).ok

FewerBytesThanAdvertised(a) ==
    a.outcome \in {"short", "stream_broken"} /\ Len(a.body) < a.advertised

----------------------------------------------------------------------------
(* C1 *)

\* C1: when download_dataset returns, every (process, object type) task has
\* finished, in loop order, and the returned mapping has exactly one key per
\* requested remote path (N keys for N distinct paths), whatever number of
\* the downloads failed.
C1_BatchReturnsOneResultPerPath ==
    pc = "returned" =>
        /\ Len(completed) = NumTasks
        /\ Range(completed) = AllPairs
        /\ DOMAIN results = RequestedPaths
        /\ (NoDuplicates(processes) /\ NoDuplicates(object_types)
              => Cardinality(DOMAIN results) = NumTasks)
        /\ \A p \in DOMAIN results : results[p].path = LocalPath(p)

C1_Witness ==
    /\ pc = "returned"
    /\ NumTasks = 4
    /\ Cardinality(DOMAIN results) = 4
    /\ \E p, q \in DOMAIN results : results[p].success /\ ~results[q].success

\* C2: a failing task of any kind never aborts the batch: when the call is
\* over, every task of the batch has been executed and has its result.
C2_FailureNeverAbortsBatch ==
    pc \in {"returned", "raised"} =>
        /\ Range(completed) = AllPairs
        /\ raised = "None"

\* C3: mirrors are tried in list order, each at most once; when the mirrors
\* before position k fail at the request and mirror k serves the file
\* correctly, the fetch ends there with success, the bytes of mirror k on
\* disk and no error.
C3_FirstServingMirrorWins ==
    /\ Len(attempts) <= Len(base_urls)
    /\ \A j \in 1..Len(attempts) : attempts[j].request.mirror = base_urls[j]
    /\ \A k \in 1..Len(attempts) :
         (ServedCorrectly(attempts[k]) /\ \A j \in 1..(k - 1) : RequestFailed(attempts[j]))
         => /\ Len(attempts) = k
            /\ FetchReturned
            /\ TheResult.success
            /\ TheResult.error = NoError
            /\ Exists(local_path)
            /\ disk[local_path] = attempts[k].body
            /\ TheResult.size = Len(attempts[k].body)
            /\ TheResult.checksum = _compute_checksum(attempts[k].body)
    /\ (FetchReturned /\ attempts # <<>> /\ TheResult.success) => ServedCorrectly(LastAttempt)

C3_Witness ==
    /\ FetchReturned
    /\ Len(attempts) = 2
    /\ RequestFailed(attempts[1])
    /\ ServedCorrectly(attempts[2])
    /\ TheResult.success
    /\ disk[local_path] = FileBytes(1, base_urls[2])

C5_ShortTransferIsSizeMismatch ==
    (FetchReturned /\ attempts # <<>> /\ FewerBytesThanAdvertised(LastAttempt))
    => /\ ~TheResult.success
       /\ TheResult.error.msg = "SizeMismatch"

\* C6: with resume set and a partial file at the local path, the request
\* asks for the remaining byte range only and the file is opened for append.
C6_ResumeRequestsRemainingRange ==
    \A k \in 1..Len(attempts) :
        (resume /\ attempts[k].before # <<>>
                /\ Len(attempts[k].before[1]) < attempts[k].advertised)
        => /\ attempts[k].request.range_from = Len(attempts[k].before[1])
           /\ attempts[k].request.mode = "ab"

----------------------------------------------------------------------------
(* Extent discovery and the existence probe *)

DiscoveryOver == d_pc \in {"done", "raised"}

ForwardScanOver == d_pc \in {"tail", "done", "raised"}

NoForwardHit == \A i \in 1..Len(fwd_probes) : ~fwd_probes[i].exists

\* C7: with chunks back to back from start_event up to a last, shorter
\* chunk starting at s whose files exist under every end event up to e, and
\* no chunk at s + EVENTS_PER_FILE, the discovery returns e.
C7_DiscoveryFindsShortLastChunk ==
    (/\ DiscoveryOver
     /\ env.stable
     /\ server.mode = "upto"
     /\ server.tail >= 0
     /\ server.tail < EVENTS_PER_FILE - 1
     /\ start_event <= server.full * EVENTS_PER_FILE
     /\ max_events >= (server.full + 1) * EVENTS_PER_FILE)
    => /\ d_pc = "done"
       /\ d_result = server.full * EVENTS_PER_FILE + server.tail

\* C8: when no chunk probes positive in the forward scan, the discovery
\* raises and returns no event index, never a best-effort one.
C8_NoChunkFoundRaises ==
    /\ (ForwardScanOver /\ NoForwardHit)
         => d_pc = "raised" /\ d_raised = "ValueError" /\ d_result = NoEvent
    /\ d_pc = "raised" => NoForwardHit /\ d_result = NoEvent
    /\ d_pc = "done" => d_result # NoEvent /\ d_raised = "None"

C8_Witness ==
    /\ d_pc = "raised"
    /\ d_raised = "ValueError"
    /\ env.stable
    /\ server.full = 0
    /\ Len(fwd_probes) = 1
    /\ \A i \in 1..Len(base_urls) : probe.resp[i] = 404

Hits(resp) == {i \in 1..Len(resp) : resp[i] = 200}

\* C10: the probe asks the mirrors in list order and returns (true, URL of
\* the earliest mirror answering 200), asking no later mirror; it returns
\* (false, no URL) exactly when no mirror answers 200, whether the others
\* raise or report another status.
C10_ProbeReturnsEarliestSuccess ==
    probe.resp # <<>> =>
        /\ probe.out.exists <=> Hits(probe.resp) # {}
        /\ IF Hits(probe.resp) = {}
           THEN /\ probe.out.url = NoUrl
                /\ probe.out.contacted = Len(base_urls)
           ELSE LET first == CHOOSE i \in Hits(probe.resp) :
                                \A j \in Hits(probe.resp) : i <= j
                IN /\ probe.out.url = Url(base_urls[first], probe.path)
                   /\ probe.out.contacted = first

C10_Witness ==
    /\ probe.resp # <<>>
    /\ probe.resp[1] \in {0, 404, 500}
    /\ probe.resp[2] = 200
    /\ probe.out.exists
    /\ probe.out.url = Url(base_urls[2], probe.path)
    /\ probe.out.contacted = 2

\* the tasks begun and not yet finished
InFlight == Len(started) - Len(completed)

\* a step leaves map f alone outside key k
OnlyAt(f, g, k) ==
    \A x \in (DOMAIN f) \cup (DOMAIN g) :
        x # k => x \in DOMAIN f /\ x \in DOMAIN g /\ g[x] = f[x]

\* C11: in a batch run with max_workers >= 1, the tasks in flight never
\* outnumber max_workers, and a step of the task in flight changes no local
\* file and no result entry of a task with another remote path.
C11_InFlightBoundedAndIsolated ==
    /\ [](max_workers >= 1 => InFlight <= max_workers)
    /\ [][pc = "fetch" => /\ OnlyAt(disk, disk', LocalPath(remote_path))
                          /\ OnlyAt(results, results', remote_path)]_vars

C11_Witness ==
    /\ max_workers = 1
    /\ pc = "fetch"
    /\ InFlight = 1
    /\ Len(completed) = 1
    /\ DOMAIN disk # {}
    /\ LocalPath(remote_path) \notin DOMAIN disk

\* C12: the destination policy is injective on the remote paths of a run:
\* tasks with different remote paths write different local files, over all
\* the pileups, channels, objects and chunks of a CLI run.
C12_DestinationsDistinct ==
    \A a, b \in targets : a.remote # b.remote => a.local # b.local

C12_Witness ==
    /\ cli_pc = "exited"
    /\ Cardinality({t.remote : t \in targets}) >= 6
    /\ \E a, b \in targets : a.remote.name[1] # b.remote.name[1]
    /\ \E a, b \in targets : a.remote.name[2] # b.remote.name[2]
    /\ \E a, b \in targets : a.remote.name[6] # b.remote.name[6]

\* the file the command asked for is in the results, downloaded
Downloaded(q) ==
    /\ ValidRequest(q.process, q.object)
    /\ LET rp == get_object_path(q.pileup, q.process, q.object, q.start, q.end) IN
       rp \in DOMAIN cli_results /\ cli_results[rp].success

\* C13: no error is silently swallowed: when the download command ends and
\* some file it asked for was not downloaded, the results hold a failed
\* entry and the exit status is not zero.
C13_CliExitsNonZeroOnAnyFailure ==
    (cli_pc = "exited" /\ \E q \in cli_asked : ~Downloaded(q))
        => /\ cli_exit # 0
           /\ \E k \in DOMAIN cli_results : ~cli_results[k].success

WellFormed(r) ==
    IF r.success
    THEN /\ r.error = NoError
         /\ r.checksum # NoChecksum
         /\ r.size # NoSize
         /\ r.metadata # NoMetadata
    ELSE /\ r.error # NoError
         /\ r.checksum = NoChecksum
         /\ r.metadata = NoMetadata

\* C14: every result is well-formed: a success has no error and carries
\* checksum, size and metadata; a failure carries an error and neither
\* checksum nor metadata; either way its path is the local file the
\* destination policy gives the remote path.
C14_ResultsWellFormed ==
    \A p \in DOMAIN results :
        /\ WellFormed(results[p])
        /\ results[p].path = LocalPath(p)

C14_Witness ==
    /\ pc = "returned"
    /\ \E p \in DOMAIN results :
         /\ ~results[p].success
         /\ results[p].error.msg = "Failed to download from any URL"
         /\ results[p].path = TheLocalPath

\* the keys of the metadata dict: n_events, datasets and the file attributes
MetadataKeys(md) == {"n_events", "datasets"} \cup {kv[1] : kv \in md.attrs}

\* C16: a readable HDF5 container served in full with status 200, whatever
\* its groups and datasets (one holding only file-level attributes and
\* top-level datasets included), gives a mapping with one entry: success,
\* no error, the size of the bytes served, and as metadata exactly the
\* file-level attributes of the container.
C16_ReadableContainerSucceeds ==
    (attempts # <<>> /\ LastAttempt.outcome = "complete" /\ Readable(LastAttempt.body))
    => /\ FetchReturned
       /\ Cardinality(DOMAIN results) = 1
       /\ TheResult.success
       /\ TheResult.error = NoError
       /\ TheResult.size = Len(LastAttempt.body)
       /\ TheResult.metadata # NoMetadata
       /\ TheResult.metadata.attrs = Containers[LastAttempt.body[1]].attrs
       /\ MetadataKeys(TheResult.metadata) =
              {kv[1] : kv \in Containers[LastAttempt.body[1]].attrs}

\* C17: constructing the downloader with a URL list none of whose entries
\* can be reached fails at construction time with RuntimeError ("Failed to
\* connect to any data URLs"): no downloader comes to exist.
C17_UnreachableUrlsFailConstruction ==
    (env.reachable = {} /\ cli_pc # "new") => constructed = "RuntimeError"

\* directory d is p or lies below p
Descends(d, p) == Len(d) >= Len(p) /\ SubSeq(d, 1, Len(p)) = p

\* the directories a list_directory call is about
XListed == IF x_call.recursive
           THEN {d \in DOMAIN XTree : Descends(d, x_call.path)}
           ELSE {x_call.path}

\* the offsets download_file reads at when no read fails
XOffsetsRead ==
    ({k * x_call.chunk_size : k \in 0..Len(xrd.bytes)} \cap (0..(Len(xrd.bytes) - 1)))
    \cup {Len(xrd.bytes)}

XRuntimeError(what, path) ==
    /\ x_pc = "raised"
    /\ x_out.kind = "raised"
    /\ x_out.exception = "RuntimeError"
    /\ x_out.what = what
    /\ x_out.path = path
    /\ x_out.message = XMessage(path)

\* C18: every status of the XRootD client that is not ok surfaces as a
\* RuntimeError with the path and the status message: list_directory raises
\* when the listing of the directory or, in a recursive listing, of any
\* directory below it fails, and returns no partial listing; download_file
\* raises when the open or any chunk read fails. Without such a status the
\* call returns the whole listing, or writes the whole file.
C18_XrootdStatusSurfaces ==
    x_pc \in {"returned", "raised"} =>
        IF x_call.op = "list_directory"
        THEN IF (XListed \cap xrd.bad) # {}
             THEN \E d \in (XListed \cap xrd.bad) : XRuntimeError("Failed to list directory", d)
             ELSE /\ x_out.kind = "returned"
                  /\ Range(x_out.paths) = UNION {Range(Names(XTree[d])) : d \in XListed}
        ELSE IF ~xrd.open_ok
             THEN XRuntimeError("Failed to open file", x_call.path)
             ELSE IF xrd.bad_offset \in XOffsetsRead
                  THEN XRuntimeError("Failed to read file", x_call.path)
                  ELSE /\ x_out.kind = "returned"
                       /\ x_local = xrd.bytes

C18_Witness ==
    /\ x_call.op = "list_directory"
    /\ x_call.recursive
    /\ x_call.path = <<"d">>
    /\ xrd.bad = {<<"d", "b">>}
    /\ XRuntimeError("Failed to list directory", <<"d", "b">>)

\* the steps of the trace since the last request
SinceLastGet(i) ==
    LET gets == {j \in 1..i : trace[j] = "get"}
        g == CHOOSE j \in gets : \A k \in gets : k <= j
    IN  SubSeq(trace, g + 1, i - 1)

\* C19: within a fetch, validation starts only after the byte stream of
\* that attempt has been written to disk in full, the digest is computed
\* only after validation has succeeded, and for a file that fails
\* validation no digest is computed.
C19_ValidateThenDigest ==
    /\ \A i \in 1..Len(trace) :
         trace[i] = "validate" =>
            /\ "write" \in Range(SinceLastGet(i))
            /\ \A j \in (i + 1)..Len(trace) : trace[j] # "write"
    /\ \A i \in 1..Len(trace) :
         trace[i] = "checksum" =>
            /\ "validate" \in Range(SinceLastGet(i))
            /\ _validate_hdf5(LastAttempt.body).ok
    /\ (attempts # <<>> /\ StructurallyInvalid(LastAttempt))
         => /\ "validate" \in Range(trace)
            /\ "checksum" \notin Range(trace)
            /\ TheResult.checksum = NoChecksum
    /\ (FetchReturned /\ TheResult.checksum # NoChecksum) => "checksum" \in Range(trace)

C19_Witness ==
    /\ FetchReturned
    /\ Len(attempts) = 2
    /\ attempts[1].outcome = "stream_broken"
    /\ StructurallyInvalid(LastAttempt)
    /\ trace = <<"get", "write", "get", "write", "size", "validate", "unlink">>

\* the cursors the forward scan found present
FoundCursors == {fwd_probes[i].cursor : i \in {j \in 1..Len(fwd_probes) : fwd_probes[j].exists}}

\* C20: the forward scan probes the nominal chunks [cursor, cursor +
\* EVENTS_PER_FILE - 1] for cursor = start_event, start_event +
\* EVENTS_PER_FILE, ... in increasing order, each once; it stops at the
\* first absent chunk and never probes a cursor beyond max_events, so it
\* makes at most floor((max_events - start_event) / EVENTS_PER_FILE) + 1
\* probes; last_found is the largest probed cursor such that it and every
\* earlier probed chunk were present (-1 when there is none).
C20_ForwardScanOrderAndBound ==
    /\ \A i \in 1..Len(fwd_probes) :
         /\ fwd_probes[i].cursor = start_event + (i - 1) * EVENTS_PER_FILE
         /\ fwd_probes[i].path = ChunkPath(fwd_probes[i].cursor,
                                           fwd_probes[i].cursor + EVENTS_PER_FILE - 1)
         /\ fwd_probes[i].cursor <= max_events
         /\ i < Len(fwd_probes) => fwd_probes[i].exists
    /\ Len(fwd_probes) <= ((max_events - start_event) \div EVENTS_PER_FILE) + 1
    /\ (fwd_probes # <<>> /\ ~fwd_probes[Len(fwd_probes)].exists) => d_pc # "forward"
    /\ last_found = IF FoundCursors = {} THEN -1
                    ELSE CHOOSE c \in FoundCursors : \A d \in FoundCursors : d <= c

C20_Witness ==
    /\ d_pc # "forward"
    /\ start_event = EVENTS_PER_FILE
    /\ Len(fwd_probes) = 2
    /\ fwd_probes[1].exists
    /\ ~fwd_probes[2].exists
    /\ last_found = EVENTS_PER_FILE

\* a step of the tail scan: the candidate is probed under the name
\* (last_found, candidate); a positive probe returns it, a negative one
\* moves to the next smaller candidate; below last_found the fallback
TailStep ==
    IF tail_event >= last_found
    THEN /\ probe'.path = ChunkPath(last_found, tail_event)
         /\ IF probe'.out.exists
            THEN d_pc' = "done" /\ d_result' = tail_event
            ELSE d_pc' = "tail" /\ tail_event' = tail_event - 1
    ELSE /\ probe' = probe
         /\ d_pc' = "done"
         /\ d_result' = last_found + EVENTS_PER_FILE - 1

\* C21: the tail scan probes the end events from last_found +
\* EVENTS_PER_FILE - 1 down to last_found, each as the chunk named
\* (last_found, candidate), and returns the first, hence largest, candidate
\* that probes positive; when none does it returns last_found +
\* EVENTS_PER_FILE - 1. The returned index lies in
\* [last_found, last_found + EVENTS_PER_FILE - 1].
C21_TailScanDescendsAndFallsBack ==
    /\ [](d_pc = "tail" => /\ last_found - 1 <= tail_event
                           /\ tail_event <= last_found + EVENTS_PER_FILE - 1)
    /\ [](d_pc = "done" => /\ last_found <= d_result
                           /\ d_result <= last_found + EVENTS_PER_FILE - 1)
    /\ [][(d_pc = "forward" /\ d_pc' = "tail")
             => tail_event' = last_found' + EVENTS_PER_FILE - 1]_vars
    /\ [][d_pc = "tail" => (TailStep /\ last_found' = last_found)]_vars

C21_Witness ==
    /\ d_pc = "done"
    /\ tail_event = last_found - 1
    /\ last_found = EVENTS_PER_FILE
    /\ ~probe.out.exists
    /\ probe.path = ChunkPath(last_found, last_found)
    /\ d_result = last_found + EVENTS_PER_FILE - 1

\* the (start_event, end_event) pairs of the chunk loop for n requested and
\* t available events, in loop order
ChunkPlan(n, t) ==
    [k \in 1..num_files(n, t) |-> <<chunk_start(k - 1), chunk_end(k - 1, n, t)>>]

\* seq is a contiguous partition of [0, m - 1] into chunks of
\* EVENTS_PER_FILE events, the last possibly shorter
IsChunkPartition(seq, m) ==
    /\ seq # <<>>
    /\ seq[1][1] = 0
    /\ seq[Len(seq)][2] = m - 1
    /\ \A k \in 1..Len(seq) : seq[k][1] <= seq[k][2]
    /\ \A k \in 1..(Len(seq) - 1) :
         /\ seq[k + 1][1] = seq[k][2] + 1
         /\ seq[k][2] - seq[k][1] + 1 = EVENTS_PER_FILE
    /\ seq[Len(seq)][2] - seq[Len(seq)][1] + 1 <= EVENTS_PER_FILE

\* the ranges the command asked download_dataset for, for one combination
AskedRanges(pu, process, object_name) ==
    {<<q.start, q.end>> : q \in {r \in cli_asked : /\ r.pileup = pu
                                                   /\ r.process = process
                                                   /\ r.object = object_name}}

\* C22: for n requested and T available events (n >= 1, T >= 1) the chunk
\* ranges the CLI requests form a contiguous partition of
\* [0, min(n, T) - 1]: first start 0, each start the previous end + 1, every
\* chunk but possibly the last of EVENTS_PER_FILE events, last end
\* min(n, T) - 1, start <= end throughout; for n <= 0 no chunk is requested.
\* Every request made is a chunk of that plan, and a run that printed no
\* warning has requested all of them.
C22_ChunksPartitionRequestedEvents ==
    \A process \in DOMAIN DATASET_SIZES :
        LET n == args.events
            t == DATASET_SIZES[process]
            plan == ChunkPlan(n, t)
        IN  /\ (n >= 1 /\ t >= 1) => IsChunkPartition(plan, Min(n, t))
            /\ n <= 0 => plan = <<>>
            /\ \A pu \in Range(args.pileup), o \in Range(args.objects) :
                 /\ AskedRanges(pu, process, o) \subseteq Range(plan)
                 /\ (cli_pc = "exited" /\ cli_warned = <<>> /\ process \in Range(args.channels))
                      => AskedRanges(pu, process, o) = Range(plan)

C22_Witness ==
    /\ cli_pc = "exited"
    /\ cli_warned = <<>>
    /\ args.events = 2 * EVENTS_PER_FILE + 1
    /\ DATASET_SIZES["ttbar"] = 4 * EVENTS_PER_FILE
    /\ AskedRanges("pileup-10", "ttbar", "tracks")
         = {<<0, EVENTS_PER_FILE - 1>>, <<EVENTS_PER_FILE, 2 * EVENTS_PER_FILE - 1>>,
            <<2 * EVENTS_PER_FILE, 2 * EVENTS_PER_FILE>>}

C25_FailedFetchLeavesNoFile ==
    (/\ FetchReturned
     /\ attempts # <<>>
     /\ attempts[1].before = <<>>
     /\ ~TheResult.success)
    => ~Exists(local_path)

\* the attempts that obtained a response and opened the local file
Writers == {k \in 1..Len(attempts) :
              attempts[k].outcome \in {"stream_broken", "complete", "short"}}

LastWriter == CHOOSE k \in Writers : \A j \in Writers : j <= k

====
